---- MODULE Spec2Model ----
(***************************************************************************)
(* The damage-on-step block component of the Defensive Measures add-on:    *)
(* BP/scripts/custom_components/blocks/DamageEmitters.ts, registered by    *)
(* BP/scripts/main.ts.                                                     *)
(*                                                                         *)
(* DamageEmitters holds ONE DamageOnStepComponent object and main.ts       *)
(* registers that object once, so the host calls the handlers of the same  *)
(* object for every block that carries the component.  The fields init,    *)
(* triggered, damage and continuous are therefore fields of that single    *)
(* object; tags, the persisted state and the occupancy cell belong to each *)
(* block.                                                                  *)
(*                                                                         *)
(* Strings are sequences of symbols.  The identifier and the postfixes     *)
(* "_damage", "_continuous" are one symbol each; the value part of a tag   *)
(* is spelled character by character.                                      *)
(***************************************************************************)
EXTENDS Integers, Sequences, FiniteSets, TLC

VARIABLES
    ctorArg,     \* the identifier handed to DamageEmitterComponent's constructor
    constructed, \* "no" before the constructor ran, then "ok", or "threw"
    thisIdentifier,   \* DamageEmitterComponent.identifier
    worldInitialized, \* the host has fired beforeEvents.worldInitialize
    registry,    \* initEvent.blockComponentRegistry: the registrations made
    init,        \* DamageOnStepComponent.init
    triggered,   \* DamageEmitterComponent.triggered
    damage,      \* DamageEmitterComponent.damage (a JS number)
    continuous,  \* DamageEmitterComponent.continuous
    tags,        \* block.getTags() of every block
    blockState,  \* the persisted state "<identifier>_triggered" of every block
    loc,         \* where every entity is: in the scanned cell of a block, or elsewhere
    last,        \* history: the last callback the host delivered
    applied,     \* history: the applyDamage calls of the last callback, per entity
    twin         \* a second emitter, on the same blocks with the continuous tag
                 \* toggled, that receives the same callbacks

vars == <<ctorArg, constructed, thisIdentifier, worldInitialized, registry,
          init, triggered, damage, continuous, tags, blockState, loc, last, applied,
          twin>>

\* What the callbacks of the emitter never touch.
loaded == <<ctorArg, constructed, thisIdentifier, worldInitialized, registry>>

(***************************************************************************)
(* Bounds of the model.                                                    *)
(***************************************************************************)
NumEntities == 2

Entities == 1..NumEntities
Blocks == {"A", "B"}
Elsewhere == "elsewhere"

(***************************************************************************)
(* JS numbers: an integer or NaN.  parseInt only yields these, and the     *)
(* field starts at 1.                                                      *)
(***************************************************************************)
Num(n) == [nan |-> FALSE, v |-> n]
NaN == [nan |-> TRUE, v |-> 0]

\* Math.floor: NaN stays NaN; every other number here is already integral.
MathFloor(x) == IF x.nan THEN NaN ELSE Num(x.v)

\* Math.max: NaN if either argument is NaN.
MathMax(x, y) ==
    IF x.nan \/ y.nan THEN NaN
    ELSE IF x.v >= y.v THEN Num(x.v) ELSE Num(y.v)

DigitValue ==
    [c \in {"0", "1", "2", "3", "4", "5", "6", "7", "8", "9"} |->
        CASE c = "0" -> 0 [] c = "1" -> 1 [] c = "2" -> 2 [] c = "3" -> 3
          [] c = "4" -> 4 [] c = "5" -> 5 [] c = "6" -> 6 [] c = "7" -> 7
          [] c = "8" -> 8 [] c = "9" -> 9]

IsDigit(c) == c \in DOMAIN DigitValue

RECURSIVE LeadingDigits(_)
\* The number of digits a string starts with.
LeadingDigits(s) ==
    IF s = <<>> \/ ~IsDigit(Head(s)) THEN 0 ELSE 1 + LeadingDigits(Tail(s))

RECURSIVE DecimalValue(_)
\* The value of a string of digits.
DecimalValue(s) ==
    IF s = <<>> THEN 0
    ELSE 10 * DecimalValue(SubSeq(s, 1, Len(s) - 1)) + DigitValue[s[Len(s)]]

\* parseInt(string), radix 10: an optional sign, then the longest run of digits;
\* whatever follows is ignored; NaN when there is no digit at that place.
\* (No string of the model starts with white space or with "0x".)
parseInt(s) ==
    LET signed == s /= <<>> /\ Head(s) \in {"+", "-"}
        body == IF signed THEN Tail(s) ELSE s
        n == LeadingDigits(body)
        magnitude == DecimalValue(SubSeq(body, 1, n))
    IN  IF n = 0 THEN NaN
        ELSE IF signed /\ Head(s) = "-" THEN Num(0 - magnitude) ELSE Num(magnitude)

(***************************************************************************)
(* String.prototype.includes and String.prototype.replace (first match).   *)
(***************************************************************************)
MatchAt(str, pat, i) ==
    /\ i + Len(pat) - 1 <= Len(str)
    /\ SubSeq(str, i, i + Len(pat) - 1) = pat

StrIncludes(str, pat) == \E i \in 1..(Len(str) + 1) : MatchAt(str, pat, i)

StrReplace(str, pat, by) ==
    IF ~StrIncludes(str, pat) THEN str
    ELSE LET i == CHOOSE k \in 1..(Len(str) + 1) :
                    /\ MatchAt(str, pat, k)
                    /\ \A j \in 1..(k - 1) : ~MatchAt(str, pat, j)
         IN  SubSeq(str, 1, i - 1) \o by \o SubSeq(str, i + Len(pat), Len(str))

(***************************************************************************)
(* DamageEmitterComponent                                                  *)
(***************************************************************************)
identifier == "dm:damage_on_step"

Undefined == "undefined"
Null == "null"

\* identifier == undefined, the loose comparison: true of undefined and of null.
IsNullish(x) == x \in {Undefined, Null}

parameterTags ==
    [damage |-> <<thisIdentifier, "_damage">>,
     continuous |-> <<thisIdentifier, "_continuous">>]

\* get getIdentifier(): throws when the field is undefined.
getIdentifier ==
    IF thisIdentifier = Undefined
    THEN [threw |-> TRUE, value |-> Undefined]
    ELSE [threw |-> FALSE, value |-> thisIdentifier]

\* tags.filter(str => str.includes(paramTag))[0].replace(`${paramTag}:`, '').
\* With no matching tag, [0] is undefined and .replace raises a TypeError.
getParamValue(paramTag, tagList) ==
    LET Matches(str) == StrIncludes(str, paramTag)
        found == SelectSeq(tagList, Matches)
    IN  IF found = <<>> THEN [threw |-> TRUE, value |-> <<>>]
        ELSE [threw |-> FALSE,
              value |-> StrReplace(found[1], paramTag \o <<":">>, <<>>)]

\* tags.includes(paramTag): some element of the list is exactly the tag.
hasParam(paramTag, tagList) == \E i \in 1..Len(tagList) : tagList[i] = paramTag

(***************************************************************************)
(* The blocks of the world.  A block type is its list of tags.             *)
(***************************************************************************)
DamageTag(value) == <<identifier, "_damage", ":">> \o value
ContinuousTag == <<identifier, "_continuous">>

DamageValues ==
    { <<"3">>, <<"0">>, <<"2", ".", "7">>, <<".", "5">>, <<"a", "b", "c">> }

BlockTypes ==
    {<<>>, <<ContinuousTag>>, <<DamageTag(<<"3">>), ContinuousTag>>}
        \cup {<<DamageTag(v)>> : v \in DamageValues}

\* The entities inside the cell of block b.
Cell(b) == {e \in Entities : loc[e] = b}

\* A faulty scan: a volume that also catches the entities of the other cells.
getEntitiesAnyCell(b) == {e \in Entities : loc[e] \in Blocks}

\* block.dimension.getEntities({location, volume}) with the block's own location.
getEntities(b) == {e \in Entities : loc[e] = b}

NoDamage == [e \in Entities |-> <<>>]

\* A faulty loop: only one of the entities found is damaged.
applyDamageToFirst(entities, amount) ==
    [e \in Entities |->
        IF entities /= {} /\ e = CHOOSE x \in entities : \A y \in entities : x <= y
        THEN <<amount>> ELSE <<>>]

\* entities.forEach(entity => entity.applyDamage(this.damage)): the calls made,
\* per entity, in order.
applyDamage(entities, amount) ==
    [e \in Entities |-> IF e \in entities THEN <<amount>> ELSE <<>>]

NoEntity == 0

\* The record of a callback: what it was delivered for, whether it raised an
\* error, the emitter's flags and the cell's occupants when it started.  entity
\* is event.entity of an onStepOn; for an onTick it is the entity of the
\* onStepOn of the same block that came right before it, if any.
Callback(op, b, e, threw) ==
    [op |-> op, block |-> b, entity |-> e, threw |-> threw,
     initBefore |-> init, triggeredBefore |-> triggered,
     found |-> Cell(b)]

JustSteppedOn(b) ==
    IF last.op = "onStepOn" /\ last.block = b THEN last.entity ELSE NoEntity

(***************************************************************************)
(* The twin emitter: the same three handlers, run on the fields of a       *)
(* second DamageOnStepComponent whose blocks differ from the real ones     *)
(* only in the presence of the continuous tag.                             *)
(***************************************************************************)
TwinInit ==
    [init |-> FALSE, triggered |-> FALSE, damage |-> Num(1), continuous |-> FALSE,
     blockState |-> [b \in Blocks |-> FALSE], applied |-> NoDamage, threw |-> FALSE]

\* The tag list with the continuous tag removed if it is there, added if not.
TwinTags(b) ==
    LET Other(tag) == tag /= ContinuousTag
    IN  IF hasParam(ContinuousTag, tags[b])
        THEN SelectSeq(tags[b], Other)
        ELSE Append(tags[b], ContinuousTag)

\* onStepOn, on the twin's fields.
TwinStepOn(t, b) ==
    [t EXCEPT !.triggered = TRUE,
              !.blockState = [@ EXCEPT ![b] = TRUE],
              !.applied = NoDamage,
              !.threw = FALSE]

\* onStepOff, on the twin's fields.
TwinStepOff(t, b) ==
    LET entities == getEntities(b)
        stillHasEntity == Cardinality(entities) > 0
    IN  [t EXCEPT !.applied = applyDamage(entities, t.damage),
                  !.triggered = IF ~stillHasEntity THEN FALSE ELSE @,
                  !.blockState = IF ~stillHasEntity THEN [@ EXCEPT ![b] = FALSE] ELSE @,
                  !.threw = FALSE]

\* onTick, on the twin's fields.
TwinTick(t, b) ==
    IF ~t.init
    THEN LET param == getParamValue(parameterTags.damage, TwinTags(b))
         IN  IF param.threw
             THEN [t EXCEPT !.applied = NoDamage, !.threw = TRUE]
             ELSE [t EXCEPT !.damage = MathMax(Num(1), MathFloor(parseInt(param.value))),
                            !.continuous = hasParam(parameterTags.continuous, TwinTags(b)),
                            !.init = TRUE,
                            !.applied = NoDamage,
                            !.threw = FALSE]
    ELSE IF t.triggered
         THEN LET entities == getEntities(b)
              IN  IF Cardinality(entities) = 0
                  THEN [t EXCEPT !.triggered = FALSE,
                                 !.blockState = [@ EXCEPT ![b] = FALSE],
                                 !.applied = NoDamage,
                                 !.threw = FALSE]
                  ELSE [t EXCEPT !.applied = applyDamage(entities, t.damage),
                                 !.threw = FALSE]
         ELSE [t EXCEPT !.applied = NoDamage, !.threw = FALSE]

(***************************************************************************)
(* Construction: `new DamageOnStepComponent()` in DamageEmitters, before   *)
(* any callback.                                                           *)
(***************************************************************************)
Init ==
    /\ ctorArg = identifier
    /\ constructed = "ok"
    /\ thisIdentifier = identifier
    /\ worldInitialized = FALSE
    /\ registry = <<>>
    /\ init = FALSE
    /\ triggered = FALSE
    /\ damage = MathMax(Num(1), MathFloor(Num(1)))
    /\ continuous = FALSE
    /\ tags \in [Blocks -> BlockTypes]
    /\ blockState = [b \in Blocks |-> FALSE]
    /\ loc = [e \in Entities |-> Elsewhere]
    /\ last = [op |-> "none", block |-> "A", entity |-> NoEntity, threw |-> FALSE,
               initBefore |-> FALSE, triggeredBefore |-> FALSE, found |-> {}]
    /\ applied = NoDamage
    /\ twin = TwinInit

(***************************************************************************)
(* DamageOnStepComponent.onStepOn                                          *)
(***************************************************************************)
\* A faulty onStepOn: the flag is set and the block's state is left as it was.
onStepOnNoPersist(b, e) ==
    /\ triggered' = TRUE
    /\ last' = Callback("onStepOn", b, e, FALSE)
    /\ applied' = NoDamage
    /\ UNCHANGED <<init, damage, continuous, tags, loc, blockState>>
    /\ UNCHANGED loaded

onStepOn(b, e) ==
    /\ triggered' = TRUE
    /\ blockState' = [blockState EXCEPT ![b] = TRUE]
    /\ last' = Callback("onStepOn", b, e, FALSE)
    /\ applied' = NoDamage
    /\ UNCHANGED <<init, damage, continuous, tags, loc>>
    /\ UNCHANGED loaded

(***************************************************************************)
(* DamageOnStepComponent.onStepOff                                         *)
(***************************************************************************)
\* A faulty onStepOff: the flag is cleared whether or not the cell is empty.
onStepOffAlwaysClears(b) ==
    /\ applied' = applyDamage(getEntities(b), damage)
    /\ triggered' = FALSE
    /\ blockState' = [blockState EXCEPT ![b] = FALSE]
    /\ last' = Callback("onStepOff", b, NoEntity, FALSE)
    /\ UNCHANGED <<init, damage, continuous, tags, loc>>
    /\ UNCHANGED loaded

onStepOff(b) ==
    LET entities == getEntities(b)
        stillHasEntity == Cardinality(entities) > 0
    IN  /\ applied' = applyDamage(entities, damage)
        /\ IF ~stillHasEntity
           THEN /\ triggered' = FALSE
                /\ blockState' = [blockState EXCEPT ![b] = FALSE]
           ELSE UNCHANGED <<triggered, blockState>>
        /\ last' = Callback("onStepOff", b, NoEntity, FALSE)
        /\ UNCHANGED <<init, damage, continuous, tags, loc>>
        /\ UNCHANGED loaded

(***************************************************************************)
(* DamageOnStepComponent.onTick                                            *)
(***************************************************************************)
\* A faulty onTick: an emitter that is not continuous damages once and then
\* clears triggered.
onTickOnceUnlessContinuous(b) ==
    /\ UNCHANGED <<tags, loc>>
    /\ UNCHANGED loaded
    /\ IF ~init
       THEN LET param == getParamValue(parameterTags.damage, tags[b])
            IN  IF param.threw
                THEN /\ last' = Callback("onTick", b, JustSteppedOn(b), TRUE)
                     /\ applied' = NoDamage
                     /\ UNCHANGED <<init, triggered, damage, continuous, blockState>>
                ELSE /\ damage' = MathMax(Num(1), MathFloor(parseInt(param.value)))
                     /\ continuous' = hasParam(parameterTags.continuous, tags[b])
                     /\ init' = TRUE
                     /\ last' = Callback("onTick", b, JustSteppedOn(b), FALSE)
                     /\ applied' = NoDamage
                     /\ UNCHANGED <<triggered, blockState>>
       ELSE /\ last' = Callback("onTick", b, JustSteppedOn(b), FALSE)
            /\ UNCHANGED <<init, damage, continuous>>
            /\ IF triggered
               THEN LET entities == getEntities(b)
                    IN  IF Cardinality(entities) = 0 \/ ~continuous
                        THEN /\ triggered' = FALSE
                             /\ blockState' = [blockState EXCEPT ![b] = FALSE]
                             /\ applied' = applyDamage(entities, damage)
                        ELSE /\ applied' = applyDamage(entities, damage)
                             /\ UNCHANGED <<triggered, blockState>>
               ELSE /\ applied' = NoDamage
                    /\ UNCHANGED <<triggered, blockState>>

onTick(b) ==
    /\ UNCHANGED <<tags, loc>>
    /\ UNCHANGED loaded
    /\ IF ~init
       THEN LET param == getParamValue(parameterTags.damage, tags[b])
            IN  IF param.threw
                THEN /\ last' = Callback("onTick", b, JustSteppedOn(b), TRUE)
                     /\ applied' = NoDamage
                     /\ UNCHANGED <<init, triggered, damage, continuous, blockState>>
                ELSE /\ damage' = MathMax(Num(1), MathFloor(parseInt(param.value)))
                     /\ continuous' = hasParam(parameterTags.continuous, tags[b])
                     /\ init' = TRUE
                     /\ last' = Callback("onTick", b, JustSteppedOn(b), FALSE)
                     /\ applied' = NoDamage
                     /\ UNCHANGED <<triggered, blockState>>
       ELSE /\ last' = Callback("onTick", b, JustSteppedOn(b), FALSE)
            /\ UNCHANGED <<init, damage, continuous>>
            /\ IF triggered
               THEN LET entities == getEntities(b)
                    IN  IF Cardinality(entities) = 0
                        THEN /\ triggered' = FALSE
                             /\ blockState' = [blockState EXCEPT ![b] = FALSE]
                             /\ applied' = NoDamage
                        ELSE /\ applied' = applyDamage(entities, damage)
                             /\ UNCHANGED <<triggered, blockState>>
               ELSE /\ applied' = NoDamage
                    /\ UNCHANGED <<triggered, blockState>>

(***************************************************************************)
(* The host: entities move in and out of the cells the handlers scan, and  *)
(* the host delivers the callbacks one at a time.                          *)
(***************************************************************************)
Move(e, to) ==
    /\ loc[e] /= to
    /\ loc' = [loc EXCEPT ![e] = to]
    /\ UNCHANGED <<init, triggered, damage, continuous, tags, blockState,
                   last, applied, twin>>
    /\ UNCHANGED loaded

(***************************************************************************)
(* main.ts: the worldInitialize subscriber registers every emitter of      *)
(* DamageEmitters under its getIdentifier.  The host fires the event once. *)
(***************************************************************************)
DamageEmitters == <<"DamageOnStepComponent">>

\* DamageEmitters.forEach(emitter => registerCustomComponent(emitter.getIdentifier, emitter))
Registrations(key) ==
    [i \in 1..Len(DamageEmitters) |-> [key |-> key, component |-> DamageEmitters[i]]]

\* A faulty subscriber: the class name is used as the key.
worldInitializeByClassName ==
    /\ constructed = "ok" /\ ~worldInitialized
    /\ worldInitialized' = TRUE
    /\ registry' = registry \o
            [i \in 1..Len(DamageEmitters) |->
                [key |-> DamageEmitters[i], component |-> DamageEmitters[i]]]
    /\ UNCHANGED <<ctorArg, constructed, thisIdentifier>>
    /\ UNCHANGED <<init, triggered, damage, continuous, tags, blockState, loc,
                   last, applied, twin>>

worldInitialize ==
    /\ constructed = "ok" /\ ~worldInitialized
    /\ worldInitialized' = TRUE
    /\ registry' = IF getIdentifier.threw THEN registry
                   ELSE registry \o Registrations(getIdentifier.value)
    /\ UNCHANGED <<ctorArg, constructed, thisIdentifier>>
    /\ UNCHANGED <<init, triggered, damage, continuous, tags, blockState, loc,
                   last, applied, twin>>

\* The host calls the handlers of a component once it is registered.
Registered == \E i \in 1..Len(registry) : registry[i].component = DamageEmitters[1]

\* Every callback is delivered to the emitter and to its twin alike.
Next ==
    \/ worldInitialize
    \/ \E b \in Blocks, e \in Entities :
          Registered /\ onStepOn(b, e) /\ twin' = TwinStepOn(twin, b)
    \/ \E b \in Blocks : Registered /\ onStepOff(b) /\ twin' = TwinStepOff(twin, b)
    \/ \E b \in Blocks : Registered /\ onTick(b) /\ twin' = TwinTick(twin, b)
    \/ \E e \in Entities, to \in Blocks \cup {Elsewhere} : Move(e, to)

Spec == Init /\ [][Next]_vars

(***************************************************************************)
(* DamageEmitterComponent.constructor, for any identifier a subclass or a  *)
(* caller may hand it.  The field initializers have run: identifier is     *)
(* undefined, triggered false, damage 1, continuous false.                 *)
(***************************************************************************)
CtorArgs == {Undefined, Null, identifier, "dm:other"}

\* A faulty check: only `undefined` counts as missing.
constructorStrict ==
    /\ constructed = "no"
    /\ IF thisIdentifier = Undefined /\ ctorArg = Undefined
       THEN /\ constructed' = "threw"
            /\ UNCHANGED <<thisIdentifier, damage>>
       ELSE /\ constructed' = "ok"
            /\ thisIdentifier' = IF IsNullish(ctorArg) THEN thisIdentifier ELSE ctorArg
            /\ damage' = MathMax(Num(1), MathFloor(damage))
    /\ UNCHANGED <<ctorArg, worldInitialized, registry>>
    /\ UNCHANGED <<init, triggered, continuous, tags, blockState, loc, last, applied,
                   twin>>

constructor ==
    /\ constructed = "no"
    /\ IF \/ thisIdentifier = Undefined /\ IsNullish(ctorArg)
          \/ thisIdentifier = Null /\ IsNullish(ctorArg)
       THEN /\ constructed' = "threw"
            /\ UNCHANGED <<thisIdentifier, damage>>
       ELSE /\ constructed' = "ok"
            /\ thisIdentifier' = IF IsNullish(ctorArg) THEN thisIdentifier ELSE ctorArg
            /\ damage' = MathMax(Num(1), MathFloor(damage))
    /\ UNCHANGED <<ctorArg, worldInitialized, registry>>
    /\ UNCHANGED <<init, triggered, continuous, tags, blockState, loc, last, applied,
                   twin>>

\* The blocks placed in the world the unconstructed emitter is loaded into:
\* an untagged one, a fully tagged one and one with a non-numeric damage.
NewBlockTypes ==
    {<<>>, <<DamageTag(<<"3">>), ContinuousTag>>, <<DamageTag(<<".", "5">>)>>}

InitNew ==
    /\ ctorArg \in CtorArgs
    /\ constructed = "no"
    /\ thisIdentifier = Undefined
    /\ worldInitialized = FALSE
    /\ registry = <<>>
    /\ init = FALSE
    /\ triggered = FALSE
    /\ damage = Num(1)
    /\ continuous = FALSE
    /\ tags \in [Blocks -> NewBlockTypes]
    /\ blockState = [b \in Blocks |-> FALSE]
    /\ loc = [e \in Entities |-> Elsewhere]
    /\ last = [op |-> "none", block |-> "A", entity |-> NoEntity, threw |-> FALSE,
               initBefore |-> FALSE, triggeredBefore |-> FALSE, found |-> {}]
    /\ applied = NoDamage
    /\ twin = TwinInit

NextNew == constructor \/ Next

SpecNew == InitNew /\ [][NextNew]_vars

(***************************************************************************)
(* Vocabulary of the properties.                                           *)
(***************************************************************************)
DamageTagPrefix == <<identifier, "_damage", ":">>

IsDamageTag(tag) ==
    /\ Len(tag) >= Len(DamageTagPrefix)
    /\ SubSeq(tag, 1, Len(DamageTagPrefix)) = DamageTagPrefix

TagValue(tag) == SubSeq(tag, Len(DamageTagPrefix) + 1, Len(tag))

\* The values the damage tags of a tag list carry.
DamageTagValues(tagList) ==
    {TagValue(tagList[i]) : i \in {j \in 1..Len(tagList) : IsDamageTag(tagList[j])}}

AllDigits(s) == \A i \in 1..Len(s) : IsDigit(s[i])

\* A non-negative number in decimal notation: digits, optionally a point and
\* digits, with a digit somewhere ("3", "0", "2.7", ".5").
IsNumeric(s) ==
    LET n == LeadingDigits(s)
        rest == SubSeq(s, n + 1, Len(s))
    IN  \/ n > 0 /\ rest = <<>>
        \/ /\ rest /= <<>>
           /\ Head(rest) = "."
           /\ AllDigits(Tail(rest))
           /\ (n > 0 \/ Len(rest) > 1)

\* floor of such a number: its integral part.
FloorOfNumeric(s) == DecimalValue(SubSeq(s, 1, LeadingDigits(s)))

AtLeastOne(n) == IF n >= 1 THEN n ELSE 1

\* The last callback was an onTick that found the emitter uninitialized.
FirstTick(b) == last.op = "onTick" /\ last.block = b /\ ~last.initBefore

(***************************************************************************)
(* C1: after an onStepOn for a block, in any state of the emitter, the     *)
(* next onTick for that block applies exactly d damage to the entity that  *)
(* stepped on if it is still in the cell, d >= 1 being the damage the      *)
(* block's tag configures.  (Stated for the onTick that is the very next   *)
(* callback after the onStepOn.)                                           *)
(***************************************************************************)
C1_StepOnThenTickDamages ==
    \A b \in Blocks, e \in Entities :
        \A v \in DamageTagValues(tags[b]) :
            ( /\ last.op = "onTick" /\ last.block = b
              /\ last.entity = e /\ e \in last.found
              /\ v /= <<>> /\ AllDigits(v) /\ DecimalValue(v) >= 1 )
            => applied[e] = <<Num(DecimalValue(v))>>

(***************************************************************************)
(* C2: every onStepOn, in any state of the emitter, ends with triggered    *)
(* true and the block's persisted state written true by that callback.     *)
(***************************************************************************)
C2_StepOnSetsAndPersists ==
    last.op = "onStepOn" => (triggered /\ blockState[last.block])

C2_Witness ==
    /\ last.op = "onStepOn"
    /\ ~last.triggeredBefore
    /\ last.initBefore
    /\ triggered /\ blockState[last.block]

(***************************************************************************)
(* C3: for every non-negative numeric value v in the block's damage tag,   *)
(* the damage resolved by the initializing onTick is max(1, floor(v)).     *)
(***************************************************************************)
C3_ResolvedDamageIsClampedFloor ==
    \A b \in Blocks :
        \A v \in DamageTagValues(tags[b]) :
            (FirstTick(b) /\ IsNumeric(v))
            => damage = Num(AtLeastOne(FloorOfNumeric(v)))

(***************************************************************************)
(* C4: in every reachable state the damage field is an integer >= 1.       *)
(***************************************************************************)
C4_DamageIsPositiveInteger == ~damage.nan /\ damage.v >= 1

(***************************************************************************)
(* C5: on a block without a damage tag the first onTick raises no error,   *)
(* leaves damage at 1 and marks the emitter initialized.                   *)
(***************************************************************************)
C5_MissingDamageTagInitializes ==
    \A b \in Blocks :
        (FirstTick(b) /\ DamageTagValues(tags[b]) = {})
        => (~last.threw /\ damage = Num(1) /\ init)

(***************************************************************************)
(* C6: on a block whose damage tag carries a value that is no number, the  *)
(* first onTick raises no error and the damage field keeps its value 1.    *)
(***************************************************************************)
C6_MalformedDamageKeepsDefault ==
    \A b \in Blocks :
        \A v \in DamageTagValues(tags[b]) :
            (FirstTick(b) /\ ~IsNumeric(v))
            => (~last.threw /\ damage = Num(1))

(***************************************************************************)
(* C7: for every tag list, the continuous flag after the initializing      *)
(* onTick is true exactly when the list holds the continuous tag.          *)
(***************************************************************************)
C7_ContinuousIffTagPresent ==
    \A b \in Blocks :
        FirstTick(b)
        => (continuous <=> \E i \in 1..Len(tags[b]) : tags[b][i] = ContinuousTag)

(***************************************************************************)
(* C8: an onStepOff that finds the cell empty clears triggered and writes  *)
(* false to the block's persisted state; one that finds entities leaves    *)
(* triggered as it was (true stays true) and applies the emitter's damage  *)
(* amount to each entity found.                                            *)
(***************************************************************************)
C8_StepOffClearsOnlyWhenEmpty ==
    last.op = "onStepOff" =>
        IF last.found = {}
        THEN ~triggered /\ ~blockState[last.block] /\ applied = NoDamage
        ELSE /\ triggered = last.triggeredBefore
             /\ \A e \in Entities :
                    applied[e] = IF e \in last.found THEN <<damage>> ELSE <<>>

C8_Witness ==
    /\ last.op = "onStepOff"
    /\ last.found /= {}
    /\ last.triggeredBefore /\ triggered
    /\ \A e \in last.found : applied[e] = <<damage>>

(***************************************************************************)
(* C9: an onTick run while the emitter is initialized and triggered makes  *)
(* exactly one damage application, of the emitter's full damage amount, to *)
(* each of the n >= 1 entities in the cell.                                *)
(***************************************************************************)
C9_TickDamagesEachOccupantOnce ==
    (last.op = "onTick" /\ last.initBefore /\ last.triggeredBefore /\ last.found /= {})
    => \A e \in last.found : applied[e] = <<damage>>

C9_Witness ==
    /\ last.op = "onTick" /\ last.initBefore /\ last.triggeredBefore
    /\ Cardinality(last.found) >= 2
    /\ \A e \in last.found : applied[e] = <<damage>>
    /\ damage = Num(3)

(***************************************************************************)
(* C10: an onTick delivered while the cell is empty applies no damage and  *)
(* never turns triggered from false to true.                               *)
(***************************************************************************)
C10_TickOnEmptyCellIsIdle ==
    (last.op = "onTick" /\ last.found = {})
    => (applied = NoDamage /\ (~last.triggeredBefore => ~triggered))

C10_Witness ==
    /\ last.op = "onTick" /\ last.found = {}
    /\ last.initBefore /\ ~last.triggeredBefore /\ ~triggered
    /\ \E e \in Entities : loc[e] \in Blocks

(***************************************************************************)
(* C11: triggered is true exactly when the most recent occupancy           *)
(* observation of the block's cell found an entity: after an onStepOn      *)
(* triggered is true, and after the scan of an onStepOff or of an onTick   *)
(* (initialized and triggered) it is true if and only if the scan found an *)
(* entity.                                                                 *)
(***************************************************************************)
Scanned ==
    \/ last.op = "onStepOff"
    \/ last.op = "onTick" /\ last.initBefore /\ last.triggeredBefore /\ ~last.threw

C11_TriggeredIffLastScanOccupied ==
    /\ last.op = "onStepOn" => triggered
    /\ Scanned => (triggered <=> last.found /= {})

(***************************************************************************)
(* C12: constructing with no identifier (undefined or null) throws and     *)
(* yields no emitter; constructing with an identifier succeeds, and from   *)
(* then on getIdentifier returns exactly that identifier and never throws. *)
(***************************************************************************)
C12_ConstructorNeedsIdentifier ==
    /\ constructed = "threw" =>
          (IsNullish(ctorArg) /\ ~Registered /\ last.op = "none")
    /\ constructed = "ok" =>
          (~IsNullish(ctorArg) /\ getIdentifier = [threw |-> FALSE, value |-> ctorArg])

C12_Witness ==
    /\ constructed = "ok" /\ ctorArg = "dm:other"
    /\ last.op = "onTick"
    /\ getIdentifier.value = "dm:other"

(***************************************************************************)
(* C13: once the world-initialize hook has fired, every emitter of         *)
(* DamageEmitters is registered exactly once, under its own identifier     *)
(* ("dm:damage_on_step" for the step emitter), and no key is used twice.   *)
(***************************************************************************)
C13_RegisteredOnceUnderOwnIdentifier ==
    /\ ~worldInitialized => registry = <<>>
    /\ worldInitialized =>
          /\ \A i \in 1..Len(DamageEmitters) :
                \E j \in 1..Len(registry) :
                    /\ registry[j].component = DamageEmitters[i]
                    /\ registry[j].key = thisIdentifier
                    /\ registry[j].key = "dm:damage_on_step"
                    /\ \A k \in 1..Len(registry) :
                          registry[k].component = DamageEmitters[i] => k = j
          /\ \A j, k \in 1..Len(registry) :
                registry[j].key = registry[k].key => j = k

C13_Witness ==
    /\ worldInitialized
    /\ Len(registry) = 1
    /\ registry[1] = [key |-> "dm:damage_on_step", component |-> "DamageOnStepComponent"]
    /\ last.op = "onTick"

(***************************************************************************)
(* C14: the triggered flag and the initialization flag are per block: a    *)
(* callback delivered for one block never changes, for another block,      *)
(* whether its next onTick applies damage (which is how that block's       *)
(* initialization and triggered state show).                               *)
(***************************************************************************)
\* onTick(c), delivered now, would apply damage.
TickWouldDamage(c) == init /\ triggered /\ getEntities(c) /= {}

CallbackFor(b) ==
    \/ \E e \in Entities : onStepOn(b, e)
    \/ onStepOff(b)
    \/ onTick(b)

C14_CallbacksAreLocalToTheirBlock ==
    [][\A b \in Blocks :
          CallbackFor(b) =>
              \A c \in Blocks \ {b} : TickWouldDamage(c)' = TickWouldDamage(c)]_vars

(***************************************************************************)
(* C15: after every callback the persisted state of the callback's block   *)
(* equals the in-memory triggered flag the emitter uses for that block.    *)
(***************************************************************************)
C15_PersistedStateMirrorsTriggered ==
    last.op /= "none" => blockState[last.block] = triggered

(***************************************************************************)
(* C16: an onTick delivered while triggered is true and the block's cell   *)
(* is empty sets triggered to false, persists false and applies no damage  *)
(* (so a triggered emitter on an empty cell is Idle after one tick).       *)
(***************************************************************************)
C16_TickOnEmptyCellClearsTriggered ==
    (last.op = "onTick" /\ last.triggeredBefore /\ last.found = {})
    => (~triggered /\ ~blockState[last.block] /\ applied = NoDamage)

(***************************************************************************)
(* C17: parameters are read exactly once: once an onTick has run, no later *)
(* callback changes damage, continuous or the initialization flag.         *)
(***************************************************************************)
C17_ParametersFixedAfterFirstTick ==
    [][last.op = "onTick" =>
          (damage' = damage /\ continuous' = continuous /\ init' = init)]_vars

(***************************************************************************)
(* C18: the first onTick leaves the emitter initialized and Idle:          *)
(* initialization is complete, triggered is false and the persisted state  *)
(* is false, whatever callbacks came before that tick.                     *)
(***************************************************************************)
C18_FirstTickLeavesIdle ==
    \A b \in Blocks :
        FirstTick(b) => (init /\ ~triggered /\ ~blockState[b])

(***************************************************************************)
(* C19: every damage application of an onTick or onStepOff uses the amount *)
(* max(1, floor(d)), d being the damage tag value of the block's own type  *)
(* (1 without a damage tag), before and after the first tick and whatever  *)
(* other block types use the emitter.                                      *)
(***************************************************************************)
\* The amount the tags of a block type ask for.
OwnDamage(tagList) ==
    IF DamageTagValues(tagList) = {} THEN 1
    ELSE AtLeastOne(FloorOfNumeric(CHOOSE v \in DamageTagValues(tagList) : TRUE))

C19_DamageIsTheBlocksOwn ==
    ( /\ last.op \in {"onTick", "onStepOff"}
      /\ \A v \in DamageTagValues(tags[last.block]) : IsNumeric(v) )
    => \A e \in Entities :
          applied[e] /= <<>> => applied[e] = <<Num(OwnDamage(tags[last.block]))>>

C21_DamageOnlyWhileTriggered ==
    (\E e \in Entities : applied[e] /= <<>>) => last.triggeredBefore

====
